---- MODULE Spec2Model ----
(***************************************************************************)
(* Model of utils/rdb_to_json.py: the scalar coercion _parse_scalar, the   *)
(* line dispatcher _parse_rdb and the command-line wrapper main.           *)
(*                                                                         *)
(* A token is a sequence of one-character strings, so that coercion is     *)
(* computed character by character the way int() and float() read it.     *)
(* A Python dict is an insertion-ordered sequence of [key, value] entries. *)
(***************************************************************************)
EXTENDS Integers, Sequences, FiniteSets, TLC

\* ----- bounds ------------------------------------------------------------
MaxLines == 3
MaxTokLen == 3
MaxRawLen == 3
MaxCount == 4
MaxCakes == 3
MaxCells == 4
MaxDirts == 2
MaxLocs == 2
MaxPilesPerLoc == 2
MaxContainers == 2

\* ----- characters --------------------------------------------------------
Digit == {"0", "1", "2", "3", "4", "5", "6", "7", "8", "9"}

Whitespace == {" ", "\t"}

DigitVal(c) ==
  CASE c = "0" -> 0 [] c = "1" -> 1 [] c = "2" -> 2 [] c = "3" -> 3
    [] c = "4" -> 4 [] c = "5" -> 5 [] c = "6" -> 6 [] c = "7" -> 7
    [] c = "8" -> 8 [] c = "9" -> 9

Lower(c) ==
  CASE c = "I" -> "i" [] c = "N" -> "n" [] c = "F" -> "f" [] c = "A" -> "a"
    [] c = "T" -> "t" [] c = "Y" -> "y" [] c = "E" -> "e" [] OTHER -> c

LowerSeq(s) == [i \in 1..Len(s) |-> Lower(s[i])]

\* ----- str.strip() as int() and float() apply it to their argument -------
RECURSIVE LStrip(_)
LStrip(s) == IF s # <<>> /\ Head(s) \in Whitespace THEN LStrip(Tail(s)) ELSE s

RECURSIVE RStrip(_)
RStrip(s) ==
  IF s # <<>> /\ s[Len(s)] \in Whitespace
  THEN RStrip(SubSeq(s, 1, Len(s) - 1))
  ELSE s

Strip(s) == RStrip(LStrip(s))

\* ----- digit runs: digits with single underscores between digits --------
IsDigitPart(s) ==
  /\ Len(s) > 0
  /\ s[1] \in Digit
  /\ s[Len(s)] \in Digit
  /\ \A i \in 1..Len(s) : s[i] \in Digit \cup {"_"}
  /\ \A i \in 1..(Len(s) - 1) : s[i] = "_" => s[i + 1] # "_"

RECURSIVE DigitsValue(_, _)
DigitsValue(s, acc) ==
  IF s = <<>> THEN acc
  ELSE IF Head(s) = "_" THEN DigitsValue(Tail(s), acc)
  ELSE DigitsValue(Tail(s), 10 * acc + DigitVal(Head(s)))

NumDigits(s) == Cardinality({i \in 1..Len(s) : s[i] \in Digit})

HasSign(s) == s # <<>> /\ s[1] \in {"+", "-"}

Unsigned(s) == IF HasSign(s) THEN Tail(s) ELSE s

SignOf(s) == IF s # <<>> /\ s[1] = "-" THEN -1 ELSE 1

\* ----- int(token): ok is FALSE where Python raises ValueError ------------
PyInt(token) ==
  LET s == Strip(token)
      body == Unsigned(s)
  IN  IF IsDigitPart(body)
      THEN [ok |-> TRUE, ival |-> SignOf(s) * DigitsValue(body, 0)]
      ELSE [ok |-> FALSE, ival |-> 0]

\* ----- float(token) ------------------------------------------------------
\* A float is kept as an exact decimal (neg, mant, exp) = (-1)^neg*mant*10^exp
\* with no trailing zero in mant, or as one of the specials inf and nan.
RECURSIVE Normalize(_, _, _)
Normalize(neg, mant, exp) ==
  IF mant = 0 THEN [kind |-> "finite", neg |-> neg, mant |-> 0, exp |-> 0]
  ELSE IF mant % 10 = 0 THEN Normalize(neg, mant \div 10, exp + 1)
  ELSE [kind |-> "finite", neg |-> neg, mant |-> mant, exp |-> exp]

FirstIndex(s, chars) ==
  IF \E i \in 1..Len(s) : s[i] \in chars
  THEN CHOOSE i \in 1..Len(s) :
         s[i] \in chars /\ \A j \in 1..(i - 1) : s[j] \notin chars
  ELSE 0

Inf == <<"i", "n", "f">>

Infinity == <<"i", "n", "f", "i", "n", "i", "t", "y">>

Nan == <<"n", "a", "n">>

NoFloat == [ok |-> FALSE, fval |-> [kind |-> "nan", neg |-> FALSE, mant |-> 0, exp |-> 0]]

PyFloat(token) ==
  LET s == Strip(token)
      neg == SignOf(s) = -1
      body == Unsigned(s)
      low == LowerSeq(body)
      e == FirstIndex(body, {"e", "E"})
      m == IF e = 0 THEN body ELSE SubSeq(body, 1, e - 1)
      x == IF e = 0 THEN <<>> ELSE SubSeq(body, e + 1, Len(body))
      dot == FirstIndex(m, {"."})
      ipart == IF dot = 0 THEN m ELSE SubSeq(m, 1, dot - 1)
      fpart == IF dot = 0 THEN <<>> ELSE SubSeq(m, dot + 1, Len(m))
      mantOk == /\ ipart = <<>> \/ IsDigitPart(ipart)
                /\ fpart = <<>> \/ IsDigitPart(fpart)
                /\ ipart # <<>> \/ fpart # <<>>
      expOk == e = 0 \/ IsDigitPart(Unsigned(x))
      expVal == IF e = 0 THEN 0 ELSE SignOf(x) * DigitsValue(Unsigned(x), 0)
  IN  IF low \in {Inf, Infinity}
      THEN [ok |-> TRUE, fval |-> [kind |-> "inf", neg |-> neg, mant |-> 0, exp |-> 0]]
      ELSE IF low = Nan
      THEN [ok |-> TRUE, fval |-> [kind |-> "nan", neg |-> neg, mant |-> 0, exp |-> 0]]
      ELSE IF mantOk /\ expOk
      THEN [ok |-> TRUE,
            fval |-> Normalize(neg, DigitsValue(ipart \o fpart, 0),
                               expVal - NumDigits(fpart))]
      ELSE NoFloat

\* ----- scalar values -----------------------------------------------------
IntValue(n) == [type |-> "int", ival |-> n]

FloatValue(f) == [type |-> "float", fval |-> f]

TextValue(s) == [type |-> "str", sval |-> s]

\* mutant: float is tried before int
ParseScalarFloatFirst(token) ==
  LET i == PyInt(token)
      f == PyFloat(token)
  IN  IF f.ok THEN FloatValue(f.fval)
      ELSE IF i.ok THEN IntValue(i.ival)
      ELSE TextValue(token)

\* mutant: the text fallback returns the stripped token
ParseScalarTrimsText(token) ==
  LET i == PyInt(token)
      f == PyFloat(token)
  IN  IF i.ok THEN IntValue(i.ival)
      ELSE IF f.ok THEN FloatValue(f.fval)
      ELSE TextValue(Strip(token))

_parse_scalar(token) ==
  LET i == PyInt(token)
      f == PyFloat(token)
  IN  IF i.ok THEN IntValue(i.ival)
      ELSE IF f.ok THEN FloatValue(f.fval)
      ELSE TextValue(token)

\* ----- dict: insertion-ordered sequence of [key, value] entries -----------
DictHas(d, k) == \E i \in 1..Len(d) : d[i].key = k

DictIndex(d, k) == CHOOSE i \in 1..Len(d) : d[i].key = k

DictGet(d, k) == d[DictIndex(d, k)].value

DictSet(d, k, v) ==
  IF DictHas(d, k)
  THEN [d EXCEPT ![DictIndex(d, k)] = [key |-> k, value |-> v]]
  ELSE Append(d, [key |-> k, value |-> v])

DictKeys(d) == [i \in 1..Len(d) |-> d[i].key]

DictValues(d) == [i \in 1..Len(d) |-> d[i].value]

\* {col: [] for col in col_names}
RECURSIVE EmptyColumns(_)
EmptyColumns(col_names) ==
  IF col_names = <<>> THEN <<>>
  ELSE DictSet(EmptyColumns(SubSeq(col_names, 1, Len(col_names) - 1)),
               col_names[Len(col_names)], <<>>)

NoneValue == [type |-> "none"]

\* ----- tokens of the input vocabulary ------------------------------------
TagStart == <<"#", "s", "t", "a", "r", "t">>

TagEnd == <<"#", "e", "n", "d">>

TagPair == <<"#", "p", "a", "i", "r">>

TagAltcols == <<"#", "a", "l", "t", "c", "o", "l", "s">>

TagAltrow == <<"#", "a", "l", "t", "r", "o", "w">>

TagComment == <<"#", "c", "o", "m", "m", "e", "n", "t">>

Format == <<"f", "o", "r", "m", "a", "t">>

\* " ".join(tokens)
RECURSIVE JoinSpace(_)
JoinSpace(toks) ==
  IF toks = <<>> THEN <<>>
  ELSE IF Len(toks) = 1 THEN toks[1]
  ELSE toks[1] \o <<" ">> \o JoinSpace(Tail(toks))

\* tokens[n:] of a Python list, n counted from 0
From(tokens, n) == SubSeq(tokens, n + 1, Len(tokens))

\* ----- the handlers of _parse_rdb, one per tag ---------------------------
\* #start: the first "format" token that has a successor decides
StartFormatIndex(tokens) ==
  IF \E i \in 1..(Len(tokens) - 1) : tokens[i] = Format
  THEN CHOOSE i \in 1..(Len(tokens) - 1) :
         tokens[i] = Format /\ \A j \in 1..(i - 1) : tokens[j] # Format
  ELSE 0

\* mutant: a follower that is no integer leaves the format as it was
StartFormatKeepsOnFailure(tokens, fv) ==
  LET i == StartFormatIndex(tokens)
  IN  IF i = 0 THEN fv
      ELSE IF PyInt(tokens[i + 1]).ok THEN IntValue(PyInt(tokens[i + 1]).ival)
      ELSE fv

StartFormat(tokens, fv) ==
  LET i == StartFormatIndex(tokens)
  IN  IF i = 0 THEN fv
      ELSE IF PyInt(tokens[i + 1]).ok THEN IntValue(PyInt(tokens[i + 1]).ival)
      ELSE NoneValue

\* #pair
PairMalformed(tokens) == Len(tokens) < 3

\* mutant: only the first value token is coerced
PairUpdateFirstToken(tokens, prs) ==
  DictSet(prs, tokens[2], _parse_scalar(tokens[3]))

\* mutant: an overwritten key is removed and inserted again at the end
PairUpdateReinserts(tokens, prs) ==
  LET rest == SelectSeq(prs, LAMBDA entry : entry.key # tokens[2])
  IN  Append(rest, [key |-> tokens[2],
                    value |-> _parse_scalar(JoinSpace(SubSeq(tokens, 3, Len(tokens))))])

PairUpdate(tokens, prs) ==
  DictSet(prs, tokens[2], _parse_scalar(JoinSpace(From(tokens, 2))))

\* #altcols
\* mutant: a table name alone is enough to define a table
AltcolsShortNeedsOnlyName(tokens) == Len(tokens) < 2

AltcolsShort(tokens) == Len(tokens) < 3

AltcolsConflict(tokens, tbls) ==
  /\ DictHas(tbls, tokens[2])
  /\ DictGet(tbls, tokens[2]).columns # From(tokens, 2)

AltcolsUpdate(tokens, tbls) ==
  IF DictHas(tbls, tokens[2]) THEN tbls
  ELSE DictSet(tbls, tokens[2],
               [name |-> tokens[2],
                columns |-> From(tokens, 2),
                data |-> EmptyColumns(From(tokens, 2))])

\* #altrow
AltrowShort(tokens) == Len(tokens) < 2

AltrowUnknownTable(tokens, tbls) == ~DictHas(tbls, tokens[2])

\* mutant: only a row with too many values is a mismatch (zip drops the rest)
AltrowLengthMismatchOnlyIfLonger(tokens, tbls) ==
  Len(From(tokens, 2)) > Len(DictGet(tbls, tokens[2]).columns)

AltrowLengthMismatch(tokens, tbls) ==
  Len(From(tokens, 2)) # Len(DictGet(tbls, tokens[2]).columns)

Min(a, b) == IF a < b THEN a ELSE b

\* for col, tok in zip(col_names, row_values): data[col].append(...)
RECURSIVE ZipAppend(_, _, _, _)
ZipAppend(dt, col_names, row_values, n) ==
  IF n = 0 THEN dt
  ELSE LET before == ZipAppend(dt, col_names, row_values, n - 1)
           col == col_names[n]
       IN  DictSet(before, col,
                   Append(DictGet(before, col), _parse_scalar(row_values[n])))

\* mutant: the table is popped and stored again, which moves it to the end
AltrowUpdateReinserts(tokens, tbls) ==
  LET table == DictGet(tbls, tokens[2])
      row_values == SubSeq(tokens, 3, Len(tokens))
      n == Min(Len(table.columns), Len(row_values))
      rest == SelectSeq(tbls, LAMBDA entry : entry.key # tokens[2])
  IN  Append(rest,
             [key |-> tokens[2],
              value |-> [table EXCEPT !.data =
                           ZipAppend(table.data, table.columns, row_values, n)]])

AltrowUpdate(tokens, tbls) ==
  LET table == DictGet(tbls, tokens[2])
      row_values == From(tokens, 2)
      n == Min(Len(table.columns), Len(row_values))
  IN  DictSet(tbls, tokens[2],
              [table EXCEPT !.data = ZipAppend(table.data, table.columns, row_values, n)])

\* ----- state --------------------------------------------------------------
VARIABLES
  pc,              \* "main", "parsing", "raised", "returned" or "exited"
  vocabulary,      \* names the set of lines the input stream is drawn from
  consumed,        \* the raw lines read from the stream so far, in order
  format_version,  \* locals of _parse_rdb
  pairs,
  tables,
  exc,             \* the ValueError raised by _parse_rdb, or NoneValue
  document,        \* the dict returned by _parse_rdb (data in main), or NoneValue
  stdout,          \* what main has written to sys.stdout
  stderr,          \* what main has written to sys.stderr
  exit_code,       \* the process exit code once main has ended
  settings,        \* the settings a generator was started with, or NoneValue
  locals,          \* the local variables of the running generator function
  files            \* the instance files written so far, in order

vars ==
  <<pc, vocabulary, consumed, format_version, pairs, tables, exc, document,
    stdout, stderr, exit_code, settings, locals, files>>

builder == <<format_version, pairs, tables>>

outputs == <<document, stdout, stderr, exit_code>>

generator == <<settings, locals, files>>

\* ----- the input vocabulary of the dispatcher specification --------------
TableNames == {<<"t">>, <<"u">>}

ColumnLists == {<<<<"a">>>>, <<<<"a">>, <<"b">>>>, <<<<"b">>, <<"a">>>>, <<<<"a">>, <<"a">>>>}

PairKeys == {<<"k">>, <<"j">>}

PairValues == {<<"7">>, <<"x">>}

RowLists == {<<>>, <<<<"7">>>>, <<<<"0", "7">>, <<"x">>>>}

StartLines ==
  {<<TagStart>>, <<TagStart, Format>>, <<TagStart, Format, <<"4">>>>,
   <<TagStart, <<"x">>, Format, <<"x">>>>,
   <<TagStart, Format, <<"x">>, Format, <<"4">>>>}

OtherLines == {<<>>, <<TagEnd>>, <<TagComment, <<"x">>>>}

PairLines ==
  {<<TagPair, <<"k">>>>, <<TagPair, <<"k">>, <<"7">>, <<"x">>>>}
    \cup {<<TagPair, k, v>> : k \in PairKeys, v \in PairValues}

AltcolsLines ==
  {<<TagAltcols, <<"t">>>>}
    \cup {<<TagAltcols, n>> \o cols : n \in TableNames, cols \in ColumnLists}

AltrowLines ==
  {<<TagAltrow>>} \cup {<<TagAltrow, n>> \o vals : n \in TableNames, vals \in RowLists}

Lines == StartLines \cup OtherLines \cup PairLines \cup AltcolsLines \cup AltrowLines

\* ----- the input vocabulary of the scalar specification: streams whose -----
\* ----- #pair values and table cells all carry one token -------------------
ScalarAlphabet == {"0", "7", "-", "+", "_", " ", ".", "e", "n", "a", "i", "f"}

RECURSIVE SeqsUpTo(_, _)
SeqsUpTo(S, n) ==
  IF n = 0 THEN {<<>>}
  ELSE LET shorter == SeqsUpTo(S, n - 1)
       IN  shorter \cup {Append(s, c) : s \in shorter, c \in S}

ScalarTokens == SeqsUpTo(ScalarAlphabet, MaxTokLen)

ScalarLines(token) ==
  {<<TagPair, <<"k">>, token>>,
   <<TagAltcols, <<"t">>, <<"a">>>>,
   <<TagAltrow, <<"t">>, token>>}

LinesOf(v) == IF v.lines = "Lines" THEN Lines ELSE ScalarLines(v.token)

\* ----- the input vocabulary of the raw-line specification: streams of ------
\* ----- one well-formed #altcols line and one raw text ----------------------
RawAlphabet == {" ", "\"", "'", "\\", "7", "a"}

RawPrefixes ==
  {<<>>,
   JoinSpace(<<TagAltrow, <<"t">>>>) \o <<" ">>,
   JoinSpace(<<TagAltcols, <<"u">>>>) \o <<" ">>}

RawTexts ==
  {prefix \o rest : prefix \in RawPrefixes, rest \in SeqsUpTo(RawAlphabet, MaxRawLen)}

RawLinesOf(v) == {JoinSpace(<<TagAltcols, <<"t">>, <<"a">>>>), v.raw}

\* ----- the ValueErrors of _parse_rdb -------------------------------------
ConflictError(tokens, tbls) ==
  [kind |-> "conflicting_altcols", table |-> tokens[2],
   existing |-> DictGet(tbls, tokens[2]).columns, given |-> From(tokens, 2)]

UnknownTableError(tokens) == [kind |-> "unknown_table", table |-> tokens[2]]

RowLengthError(tokens, tbls) ==
  [kind |-> "row_length", table |-> tokens[2], got |-> Len(From(tokens, 2)),
   expected |-> Len(DictGet(tbls, tokens[2]).columns), line |-> tokens]

\* ----- the branches of the loop body: what one line does to the locals ----
\* Each yields the locals after the line and the exception raised, if any.
Outcome(fv, prs, tbls, e) ==
  [format_version |-> fv, pairs |-> prs, tables |-> tbls, exc |-> e]

\* mutant: a new run marker starts the builder afresh
HandleStartResetsBuilder(tokens, fv, prs, tbls) ==
  Outcome(StartFormat(tokens, fv), <<>>, <<>>, NoneValue)

HandleStart(tokens, fv, prs, tbls) ==
  Outcome(StartFormat(tokens, fv), prs, tbls, NoneValue)

HandlePair(tokens, fv, prs, tbls) ==
  IF PairMalformed(tokens) THEN Outcome(fv, prs, tbls, NoneValue)
  ELSE Outcome(fv, PairUpdate(tokens, prs), tbls, NoneValue)

\* mutant: a repeated #altcols with the same columns creates the table anew
HandleAltcolsRedefines(tokens, fv, prs, tbls) ==
  IF AltcolsShort(tokens) THEN Outcome(fv, prs, tbls, NoneValue)
  ELSE IF AltcolsConflict(tokens, tbls)
  THEN Outcome(fv, prs, tbls, ConflictError(tokens, tbls))
  ELSE Outcome(fv, prs,
               DictSet(tbls, tokens[2],
                       [name |-> tokens[2],
                        columns |-> From(tokens, 2),
                        data |-> EmptyColumns(From(tokens, 2))]),
               NoneValue)

\* mutant: a conflicting #altcols replaces the table instead of raising
HandleAltcolsReplacesOnConflict(tokens, fv, prs, tbls) ==
  IF AltcolsShort(tokens) THEN Outcome(fv, prs, tbls, NoneValue)
  ELSE IF AltcolsConflict(tokens, tbls)
  THEN Outcome(fv, prs,
               DictSet(tbls, tokens[2],
                       [name |-> tokens[2],
                        columns |-> From(tokens, 2),
                        data |-> EmptyColumns(From(tokens, 2))]),
               NoneValue)
  ELSE Outcome(fv, prs, AltcolsUpdate(tokens, tbls), NoneValue)

HandleAltcols(tokens, fv, prs, tbls) ==
  IF AltcolsShort(tokens) THEN Outcome(fv, prs, tbls, NoneValue)
  ELSE IF AltcolsConflict(tokens, tbls)
  THEN Outcome(fv, prs, tbls, ConflictError(tokens, tbls))
  ELSE Outcome(fv, prs, AltcolsUpdate(tokens, tbls), NoneValue)

\* mutant: a row for an unknown table is skipped like a malformed line
HandleAltrowSkipsUnknown(tokens, fv, prs, tbls) ==
  IF AltrowShort(tokens) THEN Outcome(fv, prs, tbls, NoneValue)
  ELSE IF AltrowUnknownTable(tokens, tbls)
  THEN Outcome(fv, prs, tbls, NoneValue)
  ELSE IF AltrowLengthMismatch(tokens, tbls)
  THEN Outcome(fv, prs, tbls, RowLengthError(tokens, tbls))
  ELSE Outcome(fv, prs, AltrowUpdate(tokens, tbls), NoneValue)

\* mutant: the length check comes after the zip loop has appended
HandleAltrowChecksAfterAppend(tokens, fv, prs, tbls) ==
  IF AltrowShort(tokens) THEN Outcome(fv, prs, tbls, NoneValue)
  ELSE IF AltrowUnknownTable(tokens, tbls)
  THEN Outcome(fv, prs, tbls, UnknownTableError(tokens))
  ELSE IF AltrowLengthMismatch(tokens, tbls)
  THEN Outcome(fv, prs, AltrowUpdate(tokens, tbls), RowLengthError(tokens, tbls))
  ELSE Outcome(fv, prs, AltrowUpdate(tokens, tbls), NoneValue)

HandleAltrow(tokens, fv, prs, tbls) ==
  IF AltrowShort(tokens) THEN Outcome(fv, prs, tbls, NoneValue)
  ELSE IF AltrowUnknownTable(tokens, tbls)
  THEN Outcome(fv, prs, tbls, UnknownTableError(tokens))
  ELSE IF AltrowLengthMismatch(tokens, tbls)
  THEN Outcome(fv, prs, tbls, RowLengthError(tokens, tbls))
  ELSE Outcome(fv, prs, AltrowUpdate(tokens, tbls), NoneValue)

\* the dict _parse_rdb returns
Document(fv, prs, tbls) ==
  [format |-> fv, pairs |-> prs, tables |-> DictValues(tbls)]

\* one iteration of the loop on the tokens of a line: the dispatch on the tag
Step(tokens, fv, prs, tbls) ==
  IF tokens = <<>> THEN Outcome(fv, prs, tbls, NoneValue)
  ELSE IF tokens[1] = TagStart THEN HandleStart(tokens, fv, prs, tbls)
  ELSE IF tokens[1] = TagEnd THEN Outcome(fv, prs, tbls, NoneValue)
  ELSE IF tokens[1] = TagPair THEN HandlePair(tokens, fv, prs, tbls)
  ELSE IF tokens[1] = TagAltcols THEN HandleAltcols(tokens, fv, prs, tbls)
  ELSE IF tokens[1] = TagAltrow THEN HandleAltrow(tokens, fv, prs, tbls)
  ELSE Outcome(fv, prs, tbls, NoneValue)

\* the whole loop over a stream given as the token sequences of its lines:
\* the locals at the end, the exception if a line raised, and at, the number
\* of the line that raised (0 if none did)
RECURSIVE _parse_rdb(_)
_parse_rdb(stream) ==
  IF stream = <<>>
  THEN [format_version |-> NoneValue, pairs |-> <<>>, tables |-> <<>>,
        exc |-> NoneValue, at |-> 0]
  ELSE LET sofar == _parse_rdb(SubSeq(stream, 1, Len(stream) - 1))
           o == Step(stream[Len(stream)], sofar.format_version, sofar.pairs,
                     sofar.tables)
       IN  IF sofar.exc # NoneValue THEN sofar
           ELSE [format_version |-> o.format_version, pairs |-> o.pairs,
                 tables |-> o.tables, exc |-> o.exc,
                 at |-> IF o.exc = NoneValue THEN 0 ELSE Len(stream)]

\* ----- shlex.split(line, comments=False): the POSIX scanner ------------------
\* state is "ws" between tokens, "word" inside one, the quote character
\* inside a quoted part, "esc" after a backslash; ok is FALSE where Python
\* raises ValueError (no closing quotation, no escaped character)
ShlexWhitespace == {" ", "\t", "\r", "\n"}

ShlexQuotes == {"\"", "'"}

RECURSIVE ShlexScan(_, _, _, _, _, _)
ShlexScan(s, i, state, escapedstate, token, out) ==
  IF i > Len(s)
  THEN IF state \in ShlexQuotes \cup {"esc"} THEN [ok |-> FALSE, tokens |-> <<>>]
       ELSE IF state = "word" THEN [ok |-> TRUE, tokens |-> Append(out, token)]
       ELSE [ok |-> TRUE, tokens |-> out]
  ELSE LET c == s[i]
       IN  IF state = "ws"
           THEN IF c \in ShlexWhitespace
                THEN ShlexScan(s, i + 1, "ws", escapedstate, <<>>, out)
                ELSE IF c = "\\"
                THEN ShlexScan(s, i + 1, "esc", "word", <<>>, out)
                ELSE IF c \in ShlexQuotes
                THEN ShlexScan(s, i + 1, c, escapedstate, <<>>, out)
                ELSE ShlexScan(s, i + 1, "word", escapedstate, <<c>>, out)
           ELSE IF state \in ShlexQuotes
           THEN IF c = state
                THEN ShlexScan(s, i + 1, "word", escapedstate, token, out)
                ELSE IF c = "\\" /\ state = "\""
                THEN ShlexScan(s, i + 1, "esc", state, token, out)
                ELSE ShlexScan(s, i + 1, state, escapedstate, Append(token, c), out)
           ELSE IF state = "esc"
           THEN LET kept == IF escapedstate \in ShlexQuotes /\ c # "\\" /\ c # escapedstate
                            THEN Append(token, "\\")
                            ELSE token
                IN  ShlexScan(s, i + 1, escapedstate, escapedstate, Append(kept, c), out)
           ELSE IF c \in ShlexWhitespace
                THEN ShlexScan(s, i + 1, "ws", escapedstate, <<>>, Append(out, token))
                ELSE IF c \in ShlexQuotes
                THEN ShlexScan(s, i + 1, c, escapedstate, token, out)
                ELSE IF c = "\\"
                THEN ShlexScan(s, i + 1, "esc", "word", token, out)
                ELSE ShlexScan(s, i + 1, "word", escapedstate, Append(token, c), out)

shlex_split(line) == ShlexScan(line, 1, "ws", "word", <<>>, <<>>)

\* mutant: a line that fails to tokenize lets the ValueError out of the loop
StepRawPropagates(raw_line, fv, prs, tbls) ==
  LET line == Strip(raw_line)
      split == shlex_split(line)
  IN  IF line = <<>> THEN Outcome(fv, prs, tbls, NoneValue)
      ELSE IF ~split.ok THEN Outcome(fv, prs, tbls, [kind |-> "no_closing_quotation"])
      ELSE Step(split.tokens, fv, prs, tbls)

\* one iteration of the loop on a raw line: strip, tokenize, dispatch
StepRaw(raw_line, fv, prs, tbls) ==
  LET line == Strip(raw_line)
      split == shlex_split(line)
  IN  IF line = <<>> THEN Outcome(fv, prs, tbls, NoneValue)
      ELSE IF ~split.ok THEN Outcome(fv, prs, tbls, NoneValue)
      ELSE Step(split.tokens, fv, prs, tbls)

\* ----- initial states ----------------------------------------------------
InitLocals ==
  /\ consumed = <<>>
  /\ format_version = NoneValue
  /\ pairs = <<>>
  /\ tables = <<>>
  /\ exc = NoneValue
  /\ document = NoneValue
  /\ stdout = <<>>
  /\ stderr = <<>>
  /\ exit_code = NoneValue
  /\ settings = NoneValue
  /\ locals = NoneValue
  /\ files = <<>>

Init ==
  /\ pc = "main"
  /\ vocabulary = [lines |-> "Lines"]
  /\ InitLocals

\* ----- main: open the input ----------------------------------------------
\* mutant: a file that cannot be opened is reported and stdin is read instead
MainOpenFailFallsBackToStdin ==
  /\ pc = "main"
  /\ pc' = "parsing"
  /\ stderr' = Append(stderr, "Failed to open RDB file")
  /\ UNCHANGED <<generator, vocabulary, consumed, builder, exc, document, stdout, exit_code>>

MainOpenFail ==
  /\ pc = "main"
  /\ pc' = "exited"
  /\ stderr' = Append(stderr, "Failed to open RDB file")
  /\ exit_code' = IntValue(1)
  /\ UNCHANGED <<generator, vocabulary, consumed, builder, exc, document, stdout>>

MainOpen ==
  /\ pc = "main"
  /\ pc' = "parsing"
  /\ UNCHANGED <<generator, vocabulary, consumed, builder, exc, outputs>>

\* ----- _parse_rdb: one iteration of the loop per action -------------------
Reading(tokens) ==
  /\ pc = "parsing"
  /\ Len(consumed) < MaxLines
  /\ tokens \in LinesOf(vocabulary)
  /\ consumed' = Append(consumed, tokens)

\* mutant: a raising line is recorded but the loop goes on
ApplyContinuesAfterRaise(o) ==
  /\ format_version' = o.format_version
  /\ pairs' = o.pairs
  /\ tables' = o.tables
  /\ exc' = o.exc
  /\ pc' = "parsing"
  /\ UNCHANGED <<generator, vocabulary, outputs>>

\* the locals after the line; the loop goes on unless the line raised
Apply(o) ==
  /\ format_version' = o.format_version
  /\ pairs' = o.pairs
  /\ tables' = o.tables
  /\ exc' = o.exc
  /\ pc' = IF o.exc = NoneValue THEN "parsing" ELSE "raised"
  /\ UNCHANGED <<generator, vocabulary, outputs>>

Skip == Apply(Outcome(format_version, pairs, tables, NoneValue))

SkipLine ==
  \E tokens \in LinesOf(vocabulary) :
    /\ Reading(tokens)
    /\ tokens = <<>>
    /\ Skip

StartLine ==
  \E tokens \in LinesOf(vocabulary) :
    /\ Reading(tokens)
    /\ tokens # <<>> /\ tokens[1] = TagStart
    /\ Apply(HandleStart(tokens, format_version, pairs, tables))

\* mutant: #end closes the data file and forgets its format version
EndLineClearsFormat ==
  \E tokens \in LinesOf(vocabulary) :
    /\ Reading(tokens)
    /\ tokens # <<>> /\ tokens[1] = TagEnd
    /\ Apply(Outcome(NoneValue, pairs, tables, NoneValue))

EndLine ==
  \E tokens \in LinesOf(vocabulary) :
    /\ Reading(tokens)
    /\ tokens # <<>> /\ tokens[1] = TagEnd
    /\ Skip

PairLine ==
  \E tokens \in LinesOf(vocabulary) :
    /\ Reading(tokens)
    /\ tokens # <<>> /\ tokens[1] = TagPair
    /\ Apply(HandlePair(tokens, format_version, pairs, tables))

AltcolsLine ==
  \E tokens \in LinesOf(vocabulary) :
    /\ Reading(tokens)
    /\ tokens # <<>> /\ tokens[1] = TagAltcols
    /\ Apply(HandleAltcols(tokens, format_version, pairs, tables))

AltrowLine ==
  \E tokens \in LinesOf(vocabulary) :
    /\ Reading(tokens)
    /\ tokens # <<>> /\ tokens[1] = TagAltrow
    /\ Apply(HandleAltrow(tokens, format_version, pairs, tables))

KnownTags == {TagStart, TagEnd, TagPair, TagAltcols, TagAltrow}

UnknownLine ==
  \E tokens \in LinesOf(vocabulary) :
    /\ Reading(tokens)
    /\ tokens # <<>> /\ tokens[1] \notin KnownTags
    /\ Skip

\* the stream is exhausted: return the document
Return ==
  /\ pc = "parsing"
  /\ pc' = "returned"
  /\ document' = Document(format_version, pairs, tables)
  /\ UNCHANGED <<generator, vocabulary, consumed, builder, exc, stdout, stderr, exit_code>>

\* ----- main: after _parse_rdb --------------------------------------------
\* mutant: the handler dumps what was parsed before exiting
MainCatchDumpsPartial ==
  /\ pc = "raised"
  /\ pc' = "exited"
  /\ stderr' = Append(stderr, "Error while parsing RDB input")
  /\ stdout' = Append(stdout, [json |-> Document(format_version, pairs, tables),
                               pretty |-> FALSE])
  /\ exit_code' = IntValue(1)
  /\ UNCHANGED <<generator, vocabulary, consumed, builder, exc, document>>

MainCatch ==
  /\ pc = "raised"
  /\ pc' = "exited"
  /\ stderr' = Append(stderr, "Error while parsing RDB input")
  /\ exit_code' = IntValue(1)
  /\ UNCHANGED <<generator, vocabulary, consumed, builder, exc, document, stdout>>

MainDump ==
  /\ pc = "returned"
  /\ pc' = "exited"
  /\ \E pretty \in BOOLEAN :
       stdout' = Append(stdout, [json |-> document, pretty |-> pretty])
  /\ exit_code' = IntValue(0)
  /\ UNCHANGED <<generator, vocabulary, consumed, builder, exc, document, stderr>>

Next ==
  \/ MainOpenFail
  \/ MainOpen
  \/ SkipLine
  \/ StartLine
  \/ EndLine
  \/ PairLine
  \/ AltcolsLine
  \/ AltrowLine
  \/ UnknownLine
  \/ Return
  \/ MainCatch
  \/ MainDump

Spec == Init /\ [][Next]_vars

\* the interpreter runs the program on: a step that can be taken is taken
SpecFair == Init /\ [][Next]_vars /\ WF_vars(Next)

\* ----- scalar coercion on its own: _parse_rdb called on such a stream -----
InitScalar ==
  /\ pc = "parsing"
  /\ vocabulary \in {[lines |-> "ScalarLines", token |-> token] : token \in ScalarTokens}
  /\ InitLocals

NextScalar ==
  \/ PairLine
  \/ AltcolsLine
  \/ AltrowLine
  \/ Return

SpecScalar == InitScalar /\ [][NextScalar]_vars

\* ----- tokenization on its own: _parse_rdb reading raw lines ---------------
InitRaw ==
  /\ pc = "parsing"
  /\ vocabulary \in {[lines |-> "RawLines", raw |-> raw] : raw \in RawTexts}
  /\ InitLocals

RawLine ==
  \E raw_line \in RawLinesOf(vocabulary) :
    /\ pc = "parsing"
    /\ Len(consumed) < MaxLines
    /\ consumed' = Append(consumed, raw_line)
    /\ Apply(StepRaw(raw_line, format_version, pairs, tables))

NextRaw ==
  \/ RawLine
  \/ Return

SpecRaw == InitRaw /\ [][NextRaw]_vars

\* ===== the instance generators ============================================
\* While a generator runs the parser is idle, and the other way round.
ParserIdle ==
  /\ vocabulary = [lines |-> "None"]
  /\ consumed = <<>>
  /\ format_version = NoneValue
  /\ pairs = <<>>
  /\ tables = <<>>
  /\ exc = NoneValue
  /\ document = NoneValue
  /\ stdout = <<>>
  /\ stderr = <<>>
  /\ exit_code = NoneValue

\* random.shuffle(list(range(n))): any order of 0..n-1
Shuffles(n) ==
  {ar \in [1..n -> 0..(n - 1)] : \A p, q \in 1..n : p # q => ar[p] # ar[q]}

\* ----- pancake/make_instances.py -------------------------------------------
\* A file is its path under --out-dir (str(i), kept as i) and what was
\* written to it: the number of pancakes and the shuffled stack.
PancakeSettings ==
  {[count |-> count, ncakes |-> ncakes] : count \in 0..MaxCount, ncakes \in 0..MaxCakes}

InitPancake ==
  /\ pc = "make_instances"
  /\ settings \in PancakeSettings
  /\ locals = NoneValue
  /\ files = <<>>
  /\ ParserIdle

\* mkdir, random.seed, and the loop variable takes the first value of
\* range(1, count)
PancakeMakeInstances ==
  /\ pc = "make_instances"
  /\ pc' = "pancake_loop"
  /\ locals' = [i |-> 1]
  /\ UNCHANGED <<settings, files, vocabulary, consumed, builder, exc, outputs>>

\* make_instance(settings, i), opening the file with "+w" truncates it
PancakeMakeInstance ==
  /\ pc = "pancake_loop"
  /\ locals.i < settings.count
  /\ \E ar \in Shuffles(settings.ncakes) :
       files' = DictSet(files, locals.i, [ncakes |-> settings.ncakes, cakes |-> ar])
  /\ locals' = [i |-> locals.i + 1]
  /\ UNCHANGED <<pc, settings, vocabulary, consumed, builder, exc, outputs>>

\* range(1, count) is exhausted
PancakeDone ==
  /\ pc = "pancake_loop"
  /\ locals.i >= settings.count
  /\ pc' = "pancake_done"
  /\ UNCHANGED <<generator, vocabulary, consumed, builder, exc, outputs>>

NextPancake ==
  \/ PancakeMakeInstances
  \/ PancakeMakeInstance
  \/ PancakeDone

SpecPancake == InitPancake /\ [][NextPancake]_vars

\* ----- vacuum/make_instances.py: make_instance(settings, index) -------------
\* A cell is <<x, y>>, counted from 0. --p-blocked is kept in percent.
\* random.random() lies in [0, 1), so the comparison with p_blocked can only
\* come out one way when p_blocked <= 0 or p_blocked >= 1.
VacuumSettings ==
  {[width |-> width, height |-> height, p_blocked |-> p_blocked,
    dirts |-> dirts, chargers |-> chargers] :
     width \in 1..MaxCells, height \in 1..MaxCells, p_blocked \in {0, 10, 100},
     dirts \in (0 - 1)..MaxDirts, chargers \in {0, 1}}

Cells(width, height) == (0..(width - 1)) \X (0..(height - 1))

\* the values of `random.random() < p_blocked`
BlockedDraws(p_blocked) ==
  IF p_blocked <= 0 THEN {FALSE}
  ELSE IF p_blocked >= 100 THEN {TRUE}
  ELSE BOOLEAN

\* the grids the comprehension can build: the set of cells drawn blocked
BlockedGrids(width, height, p_blocked) ==
  {grid \in SUBSET Cells(width, height) :
     \A cell \in Cells(width, height) :
       (cell \in grid) \in BlockedDraws(p_blocked)}

\* mutant: a fully blocked grid is left as it is
EnsureUnblockedKeepsGrid(grid, width, height) == {grid}

\* if all(all(row) for row in blocked): one random cell is unblocked
EnsureUnblocked(grid, width, height) ==
  IF grid = Cells(width, height)
  THEN {grid \ {cell} : cell \in Cells(width, height)}
  ELSE {grid}

InSeq(s, v) == \E i \in 1..Len(s) : s[i] = v

\* the character written for a cell
CellChar(cell, l) ==
  IF cell \in l.blocked THEN "#"
  ELSE IF cell = <<l.sx, l.sy>> THEN "@"
  ELSE IF InSeq(l.dirt_positions, cell) THEN "*"
  ELSE IF InSeq(l.charger_positions, cell) THEN ":"
  ELSE "_"

\* the rows written after the width and height lines
GridRows(l, width, height) ==
  [row \in 1..height |-> [col \in 1..width |-> CellChar(<<col - 1, row - 1>>, l)]]

InitVacuum ==
  /\ pc = "vacuum_blocked"
  /\ settings \in {st \in VacuumSettings : st.width * st.height <= MaxCells}
  /\ locals = [index |-> 1]
  /\ files = <<>>
  /\ ParserIdle

VacuumFrame == UNCHANGED <<settings, vocabulary, consumed, builder, exc, outputs>>

\* blocked = [[...]], then the guard against a fully blocked grid
VacuumBlocked ==
  /\ pc = "vacuum_blocked"
  /\ \E drawn \in BlockedGrids(settings.width, settings.height, settings.p_blocked) :
       \E grid \in EnsureUnblocked(drawn, settings.width, settings.height) :
         locals' = [index |-> locals.index, blocked |-> grid]
  /\ pc' = "vacuum_start"
  /\ UNCHANGED files
  /\ VacuumFrame

\* one round of `while True`: draw sx, sy and leave the loop if unblocked
VacuumStart ==
  /\ pc = "vacuum_start"
  /\ \E cell \in Cells(settings.width, settings.height) :
       /\ locals' = [index |-> locals.index, blocked |-> locals.blocked,
                     sx |-> cell[1], sy |-> cell[2]]
       /\ pc' = IF cell \in locals.blocked THEN "vacuum_start" ELSE "vacuum_dirts"
  /\ UNCHANGED files
  /\ VacuumFrame

\* the start is chosen; the dirt loop begins with an empty list
VacuumDirtsBegin ==
  /\ pc = "vacuum_dirts"
  /\ "dirt_positions" \notin DOMAIN locals
  /\ locals' = [index |-> locals.index, blocked |-> locals.blocked,
                sx |-> locals.sx, sy |-> locals.sy,
                dirt_positions |-> <<>>, tries |-> 0]
  /\ UNCHANGED <<pc, files>>
  /\ VacuumFrame

\* one round of `for _ in range(num_dirts)`
VacuumDirt ==
  /\ pc = "vacuum_dirts"
  /\ "dirt_positions" \in DOMAIN locals
  /\ locals.tries < settings.dirts
  /\ \E cell \in Cells(settings.width, settings.height) :
       locals' = [locals EXCEPT
                    !.tries = @ + 1,
                    !.dirt_positions =
                       IF /\ cell # <<locals.sx, locals.sy>>
                          /\ cell \notin locals.blocked
                          /\ ~InSeq(@, cell)
                       THEN Append(@, cell) ELSE @]
  /\ UNCHANGED <<pc, files>>
  /\ VacuumFrame

\* range(num_dirts) is exhausted; the charger loop begins with an empty list
VacuumChargersBegin ==
  /\ pc = "vacuum_dirts"
  /\ "dirt_positions" \in DOMAIN locals
  /\ locals.tries >= settings.dirts
  /\ locals' = [index |-> locals.index, blocked |-> locals.blocked,
                sx |-> locals.sx, sy |-> locals.sy,
                dirt_positions |-> locals.dirt_positions,
                charger_positions |-> <<>>, tries |-> 0]
  /\ pc' = "vacuum_chargers"
  /\ UNCHANGED files
  /\ VacuumFrame

\* one round of `for _ in range(num_chargers)`
VacuumCharger ==
  /\ pc = "vacuum_chargers"
  /\ locals.tries < settings.chargers
  /\ \E cell \in Cells(settings.width, settings.height) :
       locals' = [locals EXCEPT
                    !.tries = @ + 1,
                    !.charger_positions =
                       IF /\ cell # <<locals.sx, locals.sy>>
                          /\ cell \notin locals.blocked
                          /\ ~InSeq(locals.dirt_positions, cell)
                          /\ ~InSeq(@, cell)
                       THEN Append(@, cell) ELSE @]
  /\ UNCHANGED <<pc, files>>
  /\ VacuumFrame

\* the file <out-dir>/<index>: width, height and the rows
VacuumWrite ==
  /\ pc = "vacuum_chargers"
  /\ locals.tries >= settings.chargers
  /\ files' = DictSet(files, locals.index,
                      [width |-> settings.width, height |-> settings.height,
                       rows |-> GridRows(locals, settings.width, settings.height)])
  /\ pc' = "vacuum_done"
  /\ UNCHANGED locals
  /\ VacuumFrame

NextVacuum ==
  \/ VacuumBlocked
  \/ VacuumStart
  \/ VacuumDirtsBegin
  \/ VacuumDirt
  \/ VacuumChargersBegin
  \/ VacuumCharger
  \/ VacuumWrite

SpecVacuum == InitVacuum /\ [][NextVacuum]_vars

\* ----- drobot/make_instances.py: random_usquare ----------------------------
UsquareSettings ==
  {[nlocs |-> nlocs, piles_per_loc |-> piles_per_loc,
    cranes_per_loc |-> cranes_per_loc, ncontainers |-> ncontainers] :
     nlocs \in (0 - 1)..MaxLocs, piles_per_loc \in (0 - 1)..MaxPilesPerLoc,
     cranes_per_loc \in {0, 1}, ncontainers \in (0 - 1)..MaxContainers}

\* mutant: the ids are counted from 0 on every call
MapNtimesFromZero(start_idx, num) == [k \in 1..num |-> k - 1]

\* list(range(start_idx, start_idx + num)): empty when num <= 0
map_ntimes(start_idx, num) == [k \in 1..num |-> start_idx + k - 1]

\* random.shuffle(conts): any order of the list
ShuffledLists(conts) ==
  {[k \in 1..Len(conts) |-> conts[ar[k] + 1]] : ar \in Shuffles(Len(conts))}

\* the distance matrix: 0.0 on the diagonal, a distance elsewhere
place_locations(nlocs) ==
  [a \in 1..nlocs |-> [b \in 1..nlocs |-> IF a = b THEN "0.0" ELSE "dist"]]

\* ValueError of random_usquare, and of random.randint / random.randrange
\* on an empty range
MismatchError(expected, got) ==
  [kind |-> "container_allocation_mismatch", expected |-> expected, got |-> got]

EmptyRangeError == [kind |-> "empty_range"]

InitUsquare ==
  /\ pc = "usquare_locations"
  /\ settings \in UsquareSettings
  /\ locals = [next_pile |-> 0, next_crane |-> 0, next_container |-> 0,
               adj |-> place_locations(settings.nlocs),
               piles_at_location |-> <<>>, cranes_at_location |-> <<>>]
  /\ files = <<>>
  /\ ParserIdle

UsquareFrame == UNCHANGED <<settings, files, vocabulary, consumed, builder, outputs>>

\* one round of `for _ in range(nlocs)`
UsquareLocation ==
  /\ pc = "usquare_locations"
  /\ Len(locals.piles_at_location) < settings.nlocs
  /\ locals' = [locals EXCEPT
                  !.piles_at_location =
                     Append(@, map_ntimes(locals.next_pile, settings.piles_per_loc)),
                  !.next_pile = @ + settings.piles_per_loc,
                  !.cranes_at_location =
                     Append(@, map_ntimes(locals.next_crane, settings.cranes_per_loc)),
                  !.next_crane = @ + settings.cranes_per_loc]
  /\ UNCHANGED <<pc, exc>>
  /\ UsquareFrame

\* range(nlocs) is exhausted: npiles, ncranes and the empty piles
UsquarePiles ==
  /\ pc = "usquare_locations"
  /\ Len(locals.piles_at_location) >= settings.nlocs
  /\ locals' = [next_pile |-> locals.next_pile, next_crane |-> locals.next_crane,
                next_container |-> locals.next_container, adj |-> locals.adj,
                piles_at_location |-> locals.piles_at_location,
                cranes_at_location |-> locals.cranes_at_location,
                npiles |-> locals.next_pile, ncranes |-> locals.next_crane,
                pile_contents |-> [k \in 1..locals.next_pile |-> <<>>],
                pile |-> 0]
  /\ pc' = "usquare_fill"
  /\ UNCHANGED exc
  /\ UsquareFrame

\* random.randint(0, left) if pile < npiles - 1 else left; no value when
\* randint raises on the empty range
NumHere(pile, npiles, left) ==
  IF pile < npiles - 1
  THEN IF left < 0 THEN {} ELSE 0..left
  ELSE {left}

\* one round of `for pile in range(npiles)`
UsquareFill ==
  /\ pc = "usquare_fill"
  /\ locals.pile < locals.npiles
  /\ LET left == settings.ncontainers - locals.next_container
         draws == NumHere(locals.pile, locals.npiles, left)
     IN  IF draws = {}
         THEN /\ exc' = EmptyRangeError
              /\ pc' = "usquare_raised"
              /\ UNCHANGED locals
         ELSE /\ \E num_here \in draws :
                   \E conts \in ShuffledLists(map_ntimes(locals.next_container, num_here)) :
                     locals' = [locals EXCEPT
                                  !.next_container = @ + num_here,
                                  !.pile_contents[locals.pile + 1] = conts,
                                  !.pile = @ + 1]
              /\ UNCHANGED <<pc, exc>>
  /\ UsquareFrame

\* the instance random_usquare returns
Instance(l, goal) ==
  [adjacent |-> l.adj, pile_contents |-> l.pile_contents,
   cranes_at_location |-> l.cranes_at_location,
   piles_at_location |-> l.piles_at_location, goal |-> goal,
   nlocations |-> settings.nlocs, ncranes |-> l.ncranes,
   ncontainers |-> settings.ncontainers, npiles |-> l.npiles, nrobots |-> 1]

\* range(npiles) is exhausted: the allocation check, the goals, the return
UsquareReturn ==
  /\ pc = "usquare_fill"
  /\ locals.pile >= locals.npiles
  /\ IF locals.next_container # settings.ncontainers
     THEN /\ exc' = MismatchError(settings.ncontainers, locals.next_container)
          /\ pc' = "usquare_raised"
          /\ UNCHANGED locals
     ELSE IF settings.ncontainers > 0 /\ settings.nlocs <= 0
     THEN /\ exc' = EmptyRangeError
          /\ pc' = "usquare_raised"
          /\ UNCHANGED locals
     ELSE /\ \E goal \in [1..settings.ncontainers -> 0..(settings.nlocs - 1)] :
               locals' = [instance |-> Instance(locals, goal)]
          /\ pc' = "usquare_returned"
          /\ UNCHANGED exc
  /\ UsquareFrame

NextUsquare ==
  \/ UsquareLocation
  \/ UsquarePiles
  \/ UsquareFill
  \/ UsquareReturn

SpecUsquare == InitUsquare /\ [][NextUsquare]_vars

\* ----- reading the history ------------------------------------------------
Last(s) == s[Len(s)]

Tag(line) == IF line = <<>> THEN <<>> ELSE line[1]

\* line i of the input was handled without raising
Accepted(i) == i < Len(consumed) \/ exc = NoneValue

IsPairLine(line) == Tag(line) = TagPair /\ Len(line) >= 3

IsAltcolsLine(line) == Tag(line) = TagAltcols /\ Len(line) >= 3

IsAltrowLine(line) == Tag(line) = TagAltrow /\ Len(line) >= 2

CreatedBefore(name, i) ==
  \E j \in 1..(i - 1) : IsAltcolsLine(consumed[j]) /\ consumed[j][2] = name

AcceptedRows(name) ==
  {i \in 1..Len(consumed) :
     IsAltrowLine(consumed[i]) /\ consumed[i][2] = name /\ Accepted(i)}

Distinct(s) == \A i, j \in 1..Len(s) : i # j => s[i] # s[j]

Fatal == pc \in {"raised", "exited"} /\ exc # NoneValue

\* C1: for every table and every column of it, len(data[column]) is the
\* number of #altrow lines accepted so far for that table (so all columns of
\* a table have the same length).
C1_ColumnLengthIsAcceptedRows ==
  \A t \in 1..Len(tables) :
    LET table == tables[t].value
    IN  \A c \in 1..Len(table.columns) :
          Len(DictGet(table.data, table.columns[c]))
            = Cardinality(AcceptedRows(table.name))

\* C2: an #altrow line of at least 2 tokens whose table no earlier #altcols
\* line created ends the parse in the error outcome at that line, and no
\* document is returned.
C2_RowForUnknownTableIsFatal ==
  \A i \in 1..Len(consumed) :
    (IsAltrowLine(consumed[i]) /\ ~CreatedBefore(consumed[i][2], i))
      => /\ i = Len(consumed)
         /\ Fatal
         /\ exc = [kind |-> "unknown_table", table |-> consumed[i][2]]
         /\ document = NoneValue

C2_Witness ==
  /\ Len(consumed) = 3
  /\ IsAltcolsLine(consumed[1])
  /\ IsPairLine(consumed[2])
  /\ IsAltrowLine(consumed[3])
  /\ consumed[3][2] # consumed[1][2]
  /\ pc = "raised"

\* C3: an #altrow line for an existing table whose number of value tokens
\* differs from the table's column count raises, reporting both counts and
\* the line, and leaves every table as it was before the line.
C3_RowLengthMismatchIsFatal ==
  [][\A line \in LinesOf(vocabulary) :
       ( /\ pc = "parsing"
         /\ consumed' = Append(consumed, line)
         /\ IsAltrowLine(line)
         /\ DictHas(tables, line[2])
         /\ Len(line) - 2 # Len(DictGet(tables, line[2]).columns) )
       => /\ pc' = "raised"
          /\ exc' = [kind |-> "row_length", table |-> line[2],
                     got |-> Len(line) - 2,
                     expected |-> Len(DictGet(tables, line[2]).columns),
                     line |-> line]
          /\ tables' = tables]_vars

C3_Witness ==
  /\ Len(consumed) = 3
  /\ IsAltcolsLine(consumed[1])
  /\ IsAltrowLine(consumed[2])
  /\ IsAltrowLine(consumed[3])
  /\ consumed[2][2] = consumed[1][2]
  /\ consumed[3][2] = consumed[1][2]
  /\ Len(consumed[3]) = 2 + 1
  /\ Len(consumed[1]) = 2 + 2
  /\ pc = "raised"
  /\ Cardinality(AcceptedRows(consumed[1][2])) = 1

\* C4: an #altcols line of at least 3 tokens naming an existing table never
\* changes the table: with an element-wise identical column list the locals
\* are unchanged and the parse goes on, otherwise the line raises.
SameColumns(a, b) == Len(a) = Len(b) /\ \A i \in 1..Len(a) : a[i] = b[i]

C4_RepeatedAltcolsKeepsTable ==
  [][\A line \in LinesOf(vocabulary) :
       ( /\ pc = "parsing"
         /\ consumed' = Append(consumed, line)
         /\ IsAltcolsLine(line)
         /\ DictHas(tables, line[2]) )
       => /\ tables' = tables
          /\ IF SameColumns(DictGet(tables, line[2]).columns, From(line, 2))
             THEN pc' = "parsing" /\ exc' = NoneValue /\ UNCHANGED builder
             ELSE pc' = "raised" /\ exc' # NoneValue]_vars

C4_Witness ==
  /\ Len(consumed) = 3
  /\ IsAltcolsLine(consumed[1])
  /\ IsAltrowLine(consumed[2])
  /\ consumed[3] = consumed[1]
  /\ pc = "parsing"
  /\ Cardinality(AcceptedRows(consumed[1][2])) = 1
  /\ Len(DictGet(tables, consumed[1][2]).data[1].value) = 1

\* C5: whenever a line raised, main has written nothing to stdout; stdout
\* receives the one complete document only after _parse_rdb returned it.
C5_NoOutputAfterFatalError ==
  /\ exc # NoneValue => stdout = <<>>
  /\ stdout # <<>> =>
       /\ pc = "exited"
       /\ exc = NoneValue
       /\ document # NoneValue
       /\ Len(stdout) = 1
       /\ stdout[1].json = document

C5_Witness ==
  /\ pc = "exited"
  /\ exc # NoneValue
  /\ Len(consumed) = 3
  /\ pairs # <<>>
  /\ tables # <<>>
  /\ exit_code = IntValue(1)

\* C6: pairs holds, for each key, the coerced value of the last accepted
\* #pair line with that key, and the keys are in the order of their first
\* accepted #pair line; the returned document carries that mapping.
PairLinesOf(k) ==
  {i \in 1..Len(consumed) : IsPairLine(consumed[i]) /\ consumed[i][2] = k}

FirstOf(S) == CHOOSE i \in S : \A j \in S : i <= j

LastOf(S) == CHOOSE i \in S : \A j \in S : j <= i

C6_PairsLastWriteFirstPosition ==
  /\ {pairs[p].key : p \in 1..Len(pairs)}
       = {consumed[i][2] : i \in {j \in 1..Len(consumed) : IsPairLine(consumed[j])}}
  /\ \A p, q \in 1..Len(pairs) :
       p < q => FirstOf(PairLinesOf(pairs[p].key)) < FirstOf(PairLinesOf(pairs[q].key))
  /\ \A p \in 1..Len(pairs) :
       pairs[p].value
         = _parse_scalar(JoinSpace(From(consumed[LastOf(PairLinesOf(pairs[p].key))], 2)))
  /\ document # NoneValue => document.pairs = pairs

C6_Witness ==
  /\ Len(consumed) = 3
  /\ \A i \in 1..3 : IsPairLine(consumed[i])
  /\ consumed[1][2] = consumed[3][2]
  /\ consumed[1][2] # consumed[2][2]
  /\ From(consumed[1], 2) # From(consumed[3], 2)
  /\ document # NoneValue
  /\ Len(document.pairs) = 2

\* C7: the returned document lists exactly one table per name created by an
\* accepted #altcols line, in the order of the lines that first created them,
\* each with the columns of its defining line in the given order.
DefiningLines(name) ==
  {i \in 1..Len(consumed) : IsAltcolsLine(consumed[i]) /\ consumed[i][2] = name}

C7_TablesInCreationOrder ==
  document # NoneValue =>
    LET tbs == document.tables
    IN  /\ {tbs[p].name : p \in 1..Len(tbs)}
             = {consumed[i][2] : i \in {j \in 1..Len(consumed) : IsAltcolsLine(consumed[j])}}
        /\ \A p, q \in 1..Len(tbs) :
             p < q => FirstOf(DefiningLines(tbs[p].name)) < FirstOf(DefiningLines(tbs[q].name))
        /\ \A p \in 1..Len(tbs) :
             tbs[p].columns = From(consumed[FirstOf(DefiningLines(tbs[p].name))], 2)

C7_Witness ==
  /\ Len(consumed) = 3
  /\ IsAltcolsLine(consumed[1])
  /\ IsAltcolsLine(consumed[2])
  /\ consumed[1][2] # consumed[2][2]
  /\ IsAltrowLine(consumed[3])
  /\ consumed[3][2] = consumed[1][2]
  /\ document # NoneValue
  /\ Len(document.tables) = 2

\* C8: no table's columns sequence contains a repeated column name.
C8_ColumnNamesUnique ==
  \A t \in 1..Len(tables) : Distinct(tables[t].value.columns)

\* ----- scalar coercion as the stored values show it ----------------------
\* the k-th accepted row of its table is line i
RowNumber(i) == Cardinality({j \in AcceptedRows(consumed[i][2]) : j <= i})

\* Ok(token, value) holds of every one-token #pair value that is the current
\* value of its key and of every cell of every accepted row
EveryCoercion(Ok(_, _)) ==
  /\ \A i \in 1..Len(consumed) :
       (IsPairLine(consumed[i]) /\ Len(consumed[i]) = 3
          /\ i = LastOf(PairLinesOf(consumed[i][2])))
       => /\ DictHas(pairs, consumed[i][2])
          /\ Ok(consumed[i][3], DictGet(pairs, consumed[i][2]))
  /\ \A i \in 1..Len(consumed) :
       (IsAltrowLine(consumed[i]) /\ Accepted(i))
       => LET table == DictGet(tables, consumed[i][2])
          IN  Distinct(table.columns) =>
                \A c \in 1..Len(table.columns) :
                  Ok(consumed[i][2 + c],
                     DictGet(table.data, table.columns[c])[RowNumber(i)])

\* the grammars of the claims, read off the token
IsDigits(s) == s # <<>> /\ \A i \in 1..Len(s) : s[i] \in Digit

DropSign(s, signs) == IF s # <<>> /\ s[1] \in signs THEN Tail(s) ELSE s

IsIntGrammar(s) == IsDigits(DropSign(s, {"-"}))

RECURSIVE DecimalValue(_)
DecimalValue(s) ==
  IF s = <<>> THEN 0
  ELSE 10 * DecimalValue(SubSeq(s, 1, Len(s) - 1)) + DigitVal(s[Len(s)])

IntGrammarValue(s) ==
  IF s[1] = "-" THEN 0 - DecimalValue(Tail(s)) ELSE DecimalValue(s)

IsMantissa(s) ==
  \/ IsDigits(s)
  \/ \E d \in 1..Len(s) :
       LET l == SubSeq(s, 1, d - 1)
           r == SubSeq(s, d + 1, Len(s))
       IN  /\ s[d] = "."
           /\ l = <<>> \/ IsDigits(l)
           /\ r = <<>> \/ IsDigits(r)
           /\ l # <<>> \/ r # <<>>

IsExponent(s) == IsDigits(DropSign(s, {"+", "-"}))

IsUnsignedFloat(s) ==
  \/ IsMantissa(s)
  \/ \E e \in 1..Len(s) :
       /\ s[e] \in {"e", "E"}
       /\ IsMantissa(SubSeq(s, 1, e - 1))
       /\ IsExponent(SubSeq(s, e + 1, Len(s)))

IsFloatGrammar(s) == IsUnsignedFloat(DropSign(s, {"+", "-"}))

\* C9: every token that matches the integer grammar (optional leading '-',
\* then digits only) is stored as the Integer of its numeric value, leading
\* zeros dropped, both as a #pair value and as a table cell.
IntegerGrammarGivesInteger(token, value) ==
  IsIntGrammar(token) => value = IntValue(IntGrammarValue(token))

OutsideGrammarsGivesText(token, value) ==
  (~IsIntGrammar(token) /\ ~IsFloatGrammar(token)) => value = TextValue(token)

Trimmed(s) ==
  LET keep == {i \in 1..Len(s) : s[i] \notin Whitespace}
  IN  IF keep = {} THEN <<>> ELSE SubSeq(s, FirstOf(keep), LastOf(keep))

BetweenDigits(s, i) ==
  /\ s[i] = "_"
  /\ 1 < i /\ i < Len(s)
  /\ s[i - 1] \in Digit
  /\ s[i + 1] \in Digit

RECURSIVE DropUnderscores(_, _)
DropUnderscores(s, i) ==
  IF i > Len(s) THEN <<>>
  ELSE IF BetweenDigits(s, i) THEN DropUnderscores(s, i + 1)
  ELSE <<s[i]>> \o DropUnderscores(s, i + 1)

Canonical(token) == DropUnderscores(Trimmed(token), 1)

IsSpecialWord(s) ==
  LowerSeq(DropSign(s, {"+", "-"})) \in {Inf, Infinity, Nan}

ReadAsGivesText(token, value) ==
  LET c == Canonical(token)
  IN  /\ (~IsDigits(DropSign(c, {"+", "-"})) /\ ~IsFloatGrammar(c) /\ ~IsSpecialWord(c))
          => value = TextValue(token)
      /\ IsDigits(DropSign(c, {"+", "-"})) => value.type = "int"
      /\ IsSpecialWord(c) => value.type = "float"

C11_RowValuesGoToTheirColumns ==
  \A i \in 1..Len(consumed) :
    (IsAltrowLine(consumed[i]) /\ Accepted(i))
    => LET table == DictGet(tables, consumed[i][2])
       IN  \A c \in 1..Len(table.columns) :
             LET column == DictGet(table.data, table.columns[c])
             IN  /\ Len(column) = Cardinality(AcceptedRows(table.name))
                 /\ column[RowNumber(i)] = _parse_scalar(consumed[i][2 + c])

\* C12: a #pair line of at least 3 tokens sets pairs[second token] to the
\* coercion of the remaining tokens joined by single spaces and touches no
\* other key; a shorter #pair line changes nothing; the parse goes on.
RECURSIVE ValueText(_, _)
ValueText(line, n) ==
  IF n = 3 THEN line[3] ELSE ValueText(line, n - 1) \o <<" ">> \o line[n]

C12_PairSetsJoinedValue ==
  [][\A line \in LinesOf(vocabulary) :
       ( /\ pc = "parsing"
         /\ consumed' = Append(consumed, line)
         /\ Tag(line) = TagPair )
       => /\ pc' = "parsing"
          /\ exc' = NoneValue
          /\ IF Len(line) >= 3
             THEN /\ DictHas(pairs', line[2])
                  /\ DictGet(pairs', line[2])
                       = _parse_scalar(ValueText(line, Len(line)))
                  /\ Len(pairs') = Len(pairs) + (IF DictHas(pairs, line[2]) THEN 0 ELSE 1)
                  /\ \A p \in 1..Len(pairs) :
                       pairs[p].key # line[2] => pairs'[p] = pairs[p]
             ELSE UNCHANGED builder]_vars

C12_Witness ==
  /\ Len(consumed) = 3
  /\ consumed[1] = <<TagPair, <<"k">>, <<"7">>>>
  /\ consumed[2] = <<TagPair, <<"k">>>>
  /\ consumed[3] = <<TagPair, <<"k">>, <<"7">>, <<"x">>>>
  /\ pairs = <<[key |-> <<"k">>, value |-> TextValue(<<"7", " ", "x">>)]>>
  /\ pc = "parsing"

\* C13: lines whose first token is none of #start, #pair, #altcols, #altrow
\* change nothing and raise nothing: the locals, the exception and the
\* returned document are those of the same input without these lines, and
\* a line that raises is the same original line in both.
Ignorable(line) ==
  line # <<>> /\ line[1] \notin {TagStart, TagPair, TagAltcols, TagAltrow}

WithoutIgnorable(lines) == SelectSeq(lines, LAMBDA line : ~Ignorable(line))

C13_IgnoredLinesChangeNothing ==
  LET kept == WithoutIgnorable(consumed)
      r == _parse_rdb(kept)
  IN  /\ format_version = r.format_version
      /\ pairs = r.pairs
      /\ tables = r.tables
      /\ exc = r.exc
      /\ exc # NoneValue =>
           /\ r.at = Len(kept)
           /\ kept[Len(kept)] = consumed[Len(consumed)]
      /\ document # NoneValue =>
           document = Document(r.format_version, r.pairs, r.tables)

C13_Witness ==
  /\ Len(consumed) = 3
  /\ consumed[1] = <<TagStart, Format, <<"4">>>>
  /\ Ignorable(consumed[2])
  /\ IsPairLine(consumed[3])
  /\ document # NoneValue
  /\ document.format = IntValue(4)

\* C14: a #start line never changes pairs or tables and never raises. If
\* one of its tokens is format with a token after it, the token after the
\* first such format decides: format becomes its integer value if it reads
\* as an integer, and None otherwise. Without such a token format stays.
ReadsAsInt(token) == IsDigits(DropSign(Canonical(token), {"+", "-"}))

IntRead(token) ==
  LET c == Canonical(token)
  IN  IF c[1] = "-" THEN 0 - DecimalValue(Tail(c))
      ELSE DecimalValue(DropSign(c, {"+"}))

FormatPositions(line) == {i \in 1..(Len(line) - 1) : line[i] = Format}

C14_StartSetsOnlyFormat ==
  [][\A line \in LinesOf(vocabulary) :
       ( /\ pc = "parsing"
         /\ consumed' = Append(consumed, line)
         /\ Tag(line) = TagStart )
       => /\ pc' = "parsing"
          /\ exc' = NoneValue
          /\ UNCHANGED <<pairs, tables>>
          /\ IF FormatPositions(line) = {}
             THEN UNCHANGED format_version
             ELSE LET follower == line[FirstOf(FormatPositions(line)) + 1]
                  IN  IF ReadsAsInt(follower)
                      THEN format_version' = IntValue(IntRead(follower))
                      ELSE format_version' = NoneValue]_vars

C14_Witness ==
  /\ Len(consumed) = 3
  /\ consumed[1] = <<TagStart, Format, <<"4">>>>
  /\ consumed[2] = <<TagStart, Format>>
  /\ consumed[3] = <<TagStart, Format, <<"x">>, Format, <<"4">>>>
  /\ format_version = NoneValue
  /\ pc = "parsing"

\* C15: a raw line that is blank after trimming, or that fails to tokenize
\* (for one, a line with a quote that is never closed), changes nothing and
\* raises nothing, whatever its text begins with; the parse goes on.
IsBlank(raw) == \A i \in 1..Len(raw) : raw[i] \in Whitespace

Count(raw, c) == Cardinality({i \in 1..Len(raw) : raw[i] = c})

UnclosedDoubleQuote(raw) ==
  /\ Count(raw, "\\") = 0
  /\ Count(raw, "'") = 0
  /\ Count(raw, "\"") % 2 = 1

FailsToTokenize(raw) == UnclosedDoubleQuote(raw) \/ ~shlex_split(Strip(raw)).ok

StartsWith(raw, prefix) ==
  Len(raw) >= Len(prefix) /\ SubSeq(raw, 1, Len(prefix)) = prefix

C15_BlankOrUntokenizableIsSkipped ==
  [][\A raw \in RawLinesOf(vocabulary) :
       ( /\ pc = "parsing"
         /\ consumed' = Append(consumed, raw)
         /\ IsBlank(raw) \/ FailsToTokenize(raw) )
       => /\ pc' = "parsing"
          /\ exc' = NoneValue
          /\ UNCHANGED builder]_vars

C15_Witness ==
  /\ Len(consumed) = 3
  /\ consumed[1] = JoinSpace(<<TagAltcols, <<"t">>, <<"a">>>>)
  /\ consumed[2] = JoinSpace(<<TagAltrow, <<"t">>, <<"\"", "7", " ">>>>)
  /\ consumed[3] = consumed[2]
  /\ StartsWith(consumed[2], TagAltrow)
  /\ UnclosedDoubleQuote(consumed[2])
  /\ pc = "parsing"
  /\ Len(tables) = 1
  /\ tables[1].value.data = <<[key |-> <<"a">>, value |-> <<>>]>>

\* C16: the builder only grows: in every step each key of pairs stays a key,
\* each table stays a table with the same name and the same columns, and
\* each column's value sequence has the earlier sequence as a prefix.
KeySet(d) == {d[i].key : i \in 1..Len(d)}

IsPrefix(s, t) == Len(s) <= Len(t) /\ SubSeq(t, 1, Len(s)) = s

TableKept(old, new) ==
  /\ new.name = old.name
  /\ new.columns = old.columns
  /\ \A col \in KeySet(old.data) :
       /\ DictHas(new.data, col)
       /\ IsPrefix(DictGet(old.data, col), DictGet(new.data, col))

C16_BuilderOnlyGrows ==
  [][/\ \A key \in KeySet(pairs) : DictHas(pairs', key)
     /\ \A name \in KeySet(tables) :
          /\ DictHas(tables', name)
          /\ TableKept(DictGet(tables, name), DictGet(tables', name))]_vars

C16_Witness ==
  /\ Len(consumed) = 3
  /\ consumed[1] = <<TagAltcols, <<"t">>, <<"a">>>>
  /\ consumed[2] = <<TagAltrow, <<"t">>, <<"7">>>>
  /\ IsAltcolsLine(consumed[3]) /\ consumed[3][2] = <<"t">>
  /\ From(consumed[3], 2) # <<<<"a">>>>
  /\ Fatal
  /\ DictGet(tables, <<"t">>).columns = <<<<"a">>>>
  /\ DictGet(DictGet(tables, <<"t">>).data, <<"a">>) = <<IntValue(7)>>

\* C17: a line changes at most its own target: #pair at most the value of
\* its key, leaving format and tables; #altcols adds at most one table,
\* leaving format, pairs and every other table; #altrow changes only the data
\* of the table it names, leaving format, pairs, every other table and that
\* table's columns; #start changes only format.
OthersKept(old, new, key) ==
  /\ KeySet(new) \subseteq KeySet(old) \cup {key}
  /\ \A k \in KeySet(old) \ {key} : DictHas(new, k) /\ DictGet(new, k) = DictGet(old, k)

C17_LineChangesOnlyItsTarget ==
  [][\A line \in LinesOf(vocabulary) :
       (pc = "parsing" /\ consumed' = Append(consumed, line))
       => /\ Tag(line) = TagPair =>
               /\ UNCHANGED <<format_version, tables>>
               /\ IF Len(line) >= 2 THEN OthersKept(pairs, pairs', line[2])
                  ELSE UNCHANGED pairs
          /\ Tag(line) = TagAltcols =>
               /\ UNCHANGED <<format_version, pairs>>
               /\ Len(tables') <= Len(tables) + 1
               /\ SubSeq(tables', 1, Len(tables)) = tables
          /\ Tag(line) = TagAltrow =>
               /\ UNCHANGED <<format_version, pairs>>
               /\ KeySet(tables') = KeySet(tables)
               /\ IF Len(line) >= 2
                  THEN /\ OthersKept(tables, tables', line[2])
                       /\ DictHas(tables, line[2]) =>
                            /\ DictGet(tables', line[2]).name = DictGet(tables, line[2]).name
                            /\ DictGet(tables', line[2]).columns = DictGet(tables, line[2]).columns
                  ELSE UNCHANGED tables
          /\ Tag(line) = TagStart => UNCHANGED <<pairs, tables>>]_vars

C17_Witness ==
  /\ Len(consumed) = 3
  /\ IsPairLine(consumed[1])
  /\ IsAltcolsLine(consumed[2])
  /\ Tag(consumed[3]) = TagStart
  /\ format_version # NoneValue
  /\ Len(pairs) = 1
  /\ Len(tables) = 1
  /\ pc = "parsing"

\* C19: once started, the parse ends, and it ends in exactly one of two ways:
\* the stream was read to its end without a raise and the Document is
\* returned, or it stopped at the first line that raises; after a raise no
\* line is read and the builder does not change.
ParseEnded == pc \in {"returned", "raised"}

ReturnedDocument ==
  /\ pc = "returned"
  /\ exc = NoneValue
  /\ _parse_rdb(consumed).at = 0
  /\ document = Document(format_version, pairs, tables)

StoppedAtFirstRaise ==
  /\ pc = "raised"
  /\ exc # NoneValue
  /\ consumed # <<>>
  /\ _parse_rdb(consumed).at = Len(consumed)
  /\ _parse_rdb(consumed).exc = exc
  /\ document = NoneValue

C19_ParseEndsInOneOutcome ==
  /\ (pc = "parsing") ~> ParseEnded
  /\ [](ParseEnded => (ReturnedDocument \/ StoppedAtFirstRaise))
  /\ [][exc # NoneValue => UNCHANGED <<consumed, builder, exc>>]_vars

C19_Witness ==
  /\ pc = "exited"
  /\ exc # NoneValue
  /\ Len(consumed) = 2
  /\ Len(consumed) < MaxLines
  /\ IsAltcolsLine(consumed[1])
  /\ IsAltrowLine(consumed[2])
  /\ Len(tables) = 1

\* C20: main ends with exit code 1 and one message on stderr, and nothing
\* on stdout, exactly when the input could not be opened or the parser
\* raised; otherwise it ends with exit code 0, nothing on stderr and the
\* Document written to stdout. When the open fails the parser never runs:
\* no line is read and the builder stays empty. Before main ends nothing
\* is written but the open failure message.
OpenFailed == pc = "exited" /\ document = NoneValue /\ exc = NoneValue

ParserRaised == pc = "exited" /\ exc # NoneValue

ParserNeverRan ==
  /\ consumed = <<>>
  /\ format_version = NoneValue
  /\ pairs = <<>>
  /\ tables = <<>>

C20_ExitCodeTellsFailure ==
  /\ pc # "exited" => exit_code = NoneValue /\ stdout = <<>> /\ stderr = <<>>
  /\ pc = "exited" =>
       IF OpenFailed \/ ParserRaised
       THEN /\ exit_code = IntValue(1)
            /\ Len(stderr) = 1
            /\ stdout = <<>>
            /\ OpenFailed => ParserNeverRan /\ stderr[1] = "Failed to open RDB file"
            /\ ParserRaised => consumed # <<>> /\ stderr[1] = "Error while parsing RDB input"
       ELSE /\ exit_code = IntValue(0)
            /\ stderr = <<>>
            /\ Len(stdout) = 1
            /\ stdout[1].json = document
            /\ document = Document(format_version, pairs, tables)
            /\ _parse_rdb(consumed).at = 0

C20_Witness ==
  /\ OpenFailed
  /\ exit_code = IntValue(1)
  /\ stderr = <<"Failed to open RDB file">>
  /\ ParserNeverRan

\* C21: an #altcols line with fewer than 3 tokens and an #altrow line with
\* fewer than 2 tokens are skipped: format, pairs and tables are unchanged,
\* nothing is raised and the parse goes on, whether or not the table the
\* line names exists.
IsShortTableLine(line) ==
  \/ Tag(line) = TagAltcols /\ Len(line) < 3
  \/ Tag(line) = TagAltrow /\ Len(line) < 2

C21_ShortTableLinesAreSkipped ==
  [][\A line \in LinesOf(vocabulary) :
       ( /\ pc = "parsing"
         /\ consumed' = Append(consumed, line)
         /\ IsShortTableLine(line) )
       => /\ pc' = "parsing"
          /\ exc' = NoneValue
          /\ UNCHANGED builder]_vars

C21_Witness ==
  /\ Len(consumed) = 3
  /\ consumed[1] = <<TagAltcols, <<"t">>, <<"a">>>>
  /\ consumed[2] = <<TagAltcols, <<"t">>>>
  /\ consumed[3] = <<TagAltrow>>
  /\ pc = "parsing"
  /\ KeySet(tables) = {<<"t">>}
  /\ DictGet(tables, <<"t">>).columns = <<<<"a">>>>

\* C22: every table always has at least one column, so an #altrow line
\* that is only the tag and a table name always raises: the unknown-table
\* error if the table does not exist, else the row-length error with 0
\* values got.
EveryTableHasAColumn ==
  \A t \in 1..Len(tables) : Len(tables[t].value.columns) >= 1

C22_RowWithoutValuesIsFatal ==
  /\ []EveryTableHasAColumn
  /\ [][\A line \in LinesOf(vocabulary) :
          ( /\ pc = "parsing"
            /\ consumed' = Append(consumed, line)
            /\ Tag(line) = TagAltrow
            /\ Len(line) = 2 )
          => /\ pc' = "raised"
             /\ exc' # NoneValue
             /\ exc'.table = line[2]
             /\ IF DictHas(tables, line[2])
                THEN exc'.kind = "row_length" /\ exc'.got = 0 /\ exc'.expected >= 1
                ELSE exc'.kind = "unknown_table"
             /\ UNCHANGED builder]_vars

C22_Witness ==
  /\ Len(consumed) = 2
  /\ IsAltcolsLine(consumed[1])
  /\ consumed[2] = <<TagAltrow, consumed[1][2]>>
  /\ pc = "raised"
  /\ exc # NoneValue
  /\ exc.kind = "row_length"
  /\ Len(tables) = 1

\* C23: when the pancake generator is done it has written exactly --count
\* instance files, for every --count >= 1.
C23_PancakeWritesCountFiles ==
  (pc = "pancake_done" /\ settings.count >= 1) => Len(files) = settings.count

\* C24: every grid the vacuum generator writes (width, height >= 1, any
\* --p-blocked) has exactly one '@', on an unblocked cell; dirt and charger
\* cells are not blocked, not the start and not each other; there are at most
\* --dirts dirt cells; and whenever the start loop runs some cell is
\* unblocked, so the loop can end.
CountChar(rows, char) ==
  Cardinality({rc \in (1..Len(rows)) \X (1..Len(rows[1])) : rows[rc[1]][rc[2]] = char})

Shown(rows, cell) == rows[cell[2] + 1][cell[1] + 1]

PlacementsApart(l, rows) ==
  /\ CountChar(rows, "@") = 1
  /\ Shown(rows, <<l.sx, l.sy>>) = "@"
  /\ <<l.sx, l.sy>> \notin l.blocked
  /\ CountChar(rows, "#") = Cardinality(l.blocked)
  /\ \A cell \in l.blocked : Shown(rows, cell) = "#"
  /\ Distinct(l.dirt_positions \o l.charger_positions)
  /\ \A i \in 1..Len(l.dirt_positions) :
       /\ l.dirt_positions[i] \notin l.blocked
       /\ l.dirt_positions[i] # <<l.sx, l.sy>>
       /\ Shown(rows, l.dirt_positions[i]) = "*"
  /\ \A i \in 1..Len(l.charger_positions) :
       /\ l.charger_positions[i] \notin l.blocked
       /\ l.charger_positions[i] # <<l.sx, l.sy>>
       /\ Shown(rows, l.charger_positions[i]) = ":"
  /\ CountChar(rows, "*") = Len(l.dirt_positions)
  /\ CountChar(rows, ":") = Len(l.charger_positions)

StartLoopCanEnd ==
  pc = "vacuum_start" =>
    \E cell \in Cells(settings.width, settings.height) : cell \notin locals.blocked

VacuumGridOk(most_dirts) ==
  /\ StartLoopCanEnd
  /\ pc = "vacuum_done" =>
       /\ Len(files) = 1
       /\ LET rows == files[1].value.rows
          IN  /\ Len(rows) = settings.height
              /\ \A r \in 1..Len(rows) : Len(rows[r]) = settings.width
              /\ PlacementsApart(locals, rows)
              /\ CountChar(rows, "*") <= most_dirts

C24_VacuumGridIsWellFormed == VacuumGridOk(settings.dirts)

\* C24, amended: as above, with at most --dirts dirt cells when --dirts is
\* not negative and none when it is.
C24_VacuumGridWithDirtsFloor ==
  VacuumGridOk(IF settings.dirts < 0 THEN 0 ELSE settings.dirts)

C24_Witness ==
  /\ pc = "vacuum_done"
  /\ settings.width = 2 /\ settings.height = 2
  /\ settings.dirts = 2 /\ settings.chargers = 1
  /\ Cardinality(locals.blocked) = 1
  /\ CountChar(files[1].value.rows, "@") = 1
  /\ CountChar(files[1].value.rows, "*") = 2
  /\ CountChar(files[1].value.rows, ":") = 0

\* C25: in every Instance random_usquare returns, each container id in
\* 0..ncontainers-1 is in exactly one pile, exactly once, and npiles is
\* nlocs * piles_per_loc; with no piles and ncontainers > 0 the call raises
\* the container allocation mismatch and returns nothing.
Places(pile_contents, container) ==
  {place \in (1..Len(pile_contents)) \X (1..MaxContainers + 1) :
     /\ place[2] <= Len(pile_contents[place[1]])
     /\ pile_contents[place[1]][place[2]] = container}

EachContainerOnce(instance) ==
  \A container \in 0..(instance.ncontainers - 1) :
    Cardinality(Places(instance.pile_contents, container)) = 1

NoPiles == settings.nlocs <= 0 \/ settings.piles_per_loc <= 0

MismatchWithoutPiles ==
  (pc \in {"usquare_returned", "usquare_raised"} /\ NoPiles /\ settings.ncontainers > 0)
    => /\ pc = "usquare_raised"
       /\ exc = MismatchError(settings.ncontainers, 0)

C25_UsquareInstanceIsConsistent ==
  /\ pc = "usquare_returned" =>
       /\ EachContainerOnce(locals.instance)
       /\ locals.instance.ncontainers = settings.ncontainers
       /\ locals.instance.npiles = settings.nlocs * settings.piles_per_loc
  /\ MismatchWithoutPiles

\* C25, amended: as above, with npiles = nlocs * piles_per_loc for
\* nlocs >= 0, and npiles = 0 for a negative nlocs.
C25_UsquareInstanceForLocations ==
  /\ pc = "usquare_returned" =>
       /\ EachContainerOnce(locals.instance)
       /\ locals.instance.ncontainers = settings.ncontainers
       /\ locals.instance.npiles =
            IF settings.nlocs >= 0 THEN settings.nlocs * settings.piles_per_loc ELSE 0
  /\ MismatchWithoutPiles

C25_Witness ==
  /\ pc = "usquare_returned"
  /\ settings.nlocs = 2
  /\ settings.piles_per_loc = 1
  /\ settings.ncontainers = 2
  /\ locals.instance.npiles = 2
  /\ locals.instance.pile_contents = <<<<1, 0>>, <<>>>>

====
